---- MODULE Spec2Model ----
(***************************************************************************)
(* A model of the CertiFi certification API: the certify handler, the     *)
(* chain client it drives, the certificate store and the verify handlers. *)
(* Every await of a handler is a step of its own, so that requests         *)
(* interleave where the event loop lets them.                              *)
(***************************************************************************)
EXTENDS Integers, Sequences, FiniteSets, TLC

\* Number of POST /certify requests a behaviour holds (each slot is one request).
MaxReq == 2

\* Characters of a digest without and with the 0x prefix.
HexLen == 64
PrefixedLen == 66

VARIABLES
    env,      \* process.env: which configuration values are set
    client,   \* blockchain.ts module state: provider, readContract, writeContract, signerWallet
    chain,    \* the contract's state: the bytes32 values stored by mined storeHash calls
    txCount,  \* the signer's pending transaction count, as the RPC node reports it
    mempool,  \* request -> state of the transaction it sent ("none", "pending", "mined", "reverted")
    req,      \* request slot -> the certify request running in it
    store,    \* data/certificates.json: whether the file exists, and its rows by hash
    r2,       \* object storage: key -> the bytes stored under it
    vres,     \* the answer to the latest verify request
    calls,    \* utils/db.ts: the store calls in progress, each at one of its awaits
    lastSaved, \* per hash, the record of the latest saveCertificate that completed
    saveCount, \* per hash, how many saveCertificate calls were made
    users,    \* the users collection: the set of stored accounts
    maxId,    \* the highest id ever given to an account
    ures,     \* the answer to the latest account request
    rres,     \* what the latest direct call of a chain-client read left behind
    doc,      \* an uploaded file's name and the docType derived from it
    creating  \* routes/users.ts: the createUser requests in progress, each at one of its awaits

certVars == <<env, client, chain, txCount, mempool, req>>

verVars == <<store, r2, vres>>

dbVars == <<calls, lastSaved, saveCount>>

userVars == <<users, maxId, ures>>

readVars == <<rres>>

docVars == <<doc>>

raceVars == <<creating>>

libVars == <<dbVars, userVars, readVars, docVars, raceVars>>

vars == <<env, client, chain, txCount, mempool, req, store, r2, vres, libVars>>

----------------------------------------------------------------------------
(* Strings.  A string is described by what the code looks at: surrounding  *)
(* whitespace, a 0x prefix, the number of characters after the prefix,     *)
(* whether those are hexadecimal, and which content they spell.            *)

Str(ws, ox, n, hex, id) == [ws |-> ws, ox |-> ox, n |-> n, hex |-> hex, id |-> id]

\* undefined / null, and the empty string: both falsy.
Undef == Str(FALSE, FALSE, 0, FALSE, "undefined")
EmptyStr == Str(FALSE, FALSE, 0, TRUE, "")

Length(s) == s.n + (IF s.ox THEN 2 ELSE 0) + (IF s.ws THEN 2 ELSE 0)

Truthy(s) == Length(s) > 0

Trim(s) == [s EXCEPT !.ws = FALSE]

\* File contents a request can carry.
Buffers == {"b1", "b2"}

\* createHash("sha256").update(buffer).digest("hex"): 64 hex characters that
\* depend on the content and on nothing else.
generateSHA256(buffer) == Str(FALSE, FALSE, HexLen, TRUE, buffer)

----------------------------------------------------------------------------
(* Errors thrown by the chain client, as formatBlockchainError sees them. *)

Err(obj, code, short, msg, info) ==
    [obj |-> obj, code |-> code, shortMessage |-> short, message |-> msg, info |-> info]

NoErr == Err(FALSE, "undefined", "undefined", "undefined", "undefined")

\* new Error(msg): an object with a message only.
PlainError(msg) == Err(TRUE, "undefined", "undefined", msg, "undefined")

\* What an RPC call can throw: an ethers error with every field, an error
\* whose message is empty, and a value that is no object.
RpcErrors ==
    { Err(TRUE, "NETWORK_ERROR", "network error", "could not detect network", "info"),
      Err(TRUE, "CALL_EXCEPTION", "undefined", "", "undefined"),
      Err(FALSE, "undefined", "undefined", "timeout", "undefined") }

UnknownTxError == "Errore sconosciuto durante la transazione"

\* formatBlockchainError without the default message.
formatBlockchainError_NoDefault(error) ==
    [code |-> error.code, shortMessage |-> error.shortMessage,
     message |-> error.message, info |-> error.info]

formatBlockchainError(error) ==
    IF error.obj
      THEN [code |-> error.code,
            shortMessage |-> error.shortMessage,
            message |-> IF error.message \in {"", "undefined"}
                          THEN UnknownTxError ELSE error.message,
            info |-> error.info]
      ELSE [code |-> "undefined", shortMessage |-> "undefined",
            message |-> UnknownTxError, info |-> "undefined"]

NoDetails == [code |-> "undefined", shortMessage |-> "undefined",
              message |-> "undefined", info |-> "undefined"]

----------------------------------------------------------------------------
(* Signatures (utils/signature). *)

Sig(by, over) == [by |-> by, over |-> over]

NoSig == Sig("", Undef)

SigTruthy(s) == s.by # ""

\* sign.sign(SERVER_PRIVATE_KEY): throws when the key is not configured.
signHash(hash) ==
    IF ~env.SERVER_PRIVATE_KEY
      THEN [ok |-> FALSE, sig |-> NoSig]
      ELSE [ok |-> TRUE, sig |-> Sig("server", hash)]

\* verify.verify(SERVER_PUBLIC_KEY, signature): throws when the key is not
\* configured, else tells whether the server signed exactly this hash.
verifySignature(hash, signature) ==
    IF ~env.SERVER_PUBLIC_KEY
      THEN [ok |-> FALSE, valid |-> FALSE]
      ELSE [ok |-> TRUE, valid |-> signature = Sig("server", hash)]

----------------------------------------------------------------------------
(* The chain client (utils/blockchain.ts). *)

Thrown(c) == [ok |-> FALSE, c |-> c]
Got(c) == [ok |-> TRUE, c |-> c]

getProvider(c) ==
    IF c.provider THEN Got(c)
    ELSE IF ~env.RPC_URL THEN Thrown(c)
    ELSE Got([c EXCEPT !.provider = TRUE])

getReadContract(c) ==
    IF c.readContract THEN Got(c)
    ELSE IF ~env.CONTRACT_ADDRESS THEN Thrown(c)
    ELSE LET p == getProvider(c)
         IN  IF p.ok THEN Got([p.c EXCEPT !.readContract = TRUE]) ELSE Thrown(p.c)

getSignerWallet(c) ==
    IF c.signerWallet THEN Got(c)
    ELSE IF ~env.PRIVATE_KEY THEN Thrown(c)
    ELSE LET p == getProvider(c)
         IN  IF p.ok THEN Got([p.c EXCEPT !.signerWallet = TRUE]) ELSE Thrown(p.c)

getWriteContract(c) ==
    IF c.writeContract THEN Got(c)
    ELSE IF ~env.CONTRACT_ADDRESS THEN Thrown(c)
    ELSE LET w == getSignerWallet(c)
         IN  IF w.ok THEN Got([w.c EXCEPT !.writeContract = TRUE]) ELSE Thrown(w.c)

normalizeBytes32(hash) ==
    IF ~Truthy(hash) THEN [ok |-> FALSE, val |-> Undef]
    ELSE LET trimmed == Trim(hash)
         IN  IF trimmed.ox
               THEN IF Length(trimmed) # PrefixedLen
                      THEN [ok |-> FALSE, val |-> Undef]
                      ELSE [ok |-> TRUE, val |-> trimmed]
               ELSE IF Length(trimmed) # HexLen
                      THEN [ok |-> FALSE, val |-> Undef]
                      ELSE [ok |-> TRUE, val |-> [trimmed EXCEPT !.ox = TRUE]]

\* The bytes32 a digest is stored under.
Bytes32(hash) == [Trim(hash) EXCEPT !.ox = TRUE]

\* contract.verify(bytes32): the ABI encoder rejects what is not 32 bytes of hex.
ContractVerify(b32) ==
    IF ~b32.hex THEN [ok |-> FALSE, exists |-> FALSE]
    ELSE [ok |-> TRUE, exists |-> b32 \in chain]

\* verifyHashOnChain, with rpcOk telling whether the RPC call got an answer:
\* every failure on the way is caught and answered false.
verifyHashOnChain(c, hash, rpcOk) ==
    LET n == normalizeBytes32(hash)
        rc == getReadContract(c)
    IN  IF ~n.ok THEN [exists |-> FALSE, c |-> c, called |-> FALSE]
        ELSE IF ~rc.ok THEN [exists |-> FALSE, c |-> rc.c, called |-> FALSE]
        ELSE IF ~rpcOk THEN [exists |-> FALSE, c |-> rc.c, called |-> FALSE]
        ELSE [exists |-> ContractVerify(n.val).exists, c |-> rc.c,
              called |-> ContractVerify(n.val).ok]

----------------------------------------------------------------------------
(* Configuration and initial state. *)

EnvAll == [RPC_URL |-> TRUE, CONTRACT_ADDRESS |-> TRUE, PRIVATE_KEY |-> TRUE,
           SERVER_PRIVATE_KEY |-> TRUE, SERVER_PUBLIC_KEY |-> TRUE]

\* The deployments considered: everything configured, or one value missing.
Envs ==
    { EnvAll,
      [EnvAll EXCEPT !.RPC_URL = FALSE],
      [EnvAll EXCEPT !.CONTRACT_ADDRESS = FALSE],
      [EnvAll EXCEPT !.PRIVATE_KEY = FALSE],
      [EnvAll EXCEPT !.SERVER_PRIVATE_KEY = FALSE],
      [EnvAll EXCEPT !.SERVER_PUBLIC_KEY = FALSE] }

ClientInit == [provider |-> FALSE, readContract |-> FALSE,
               writeContract |-> FALSE, signerWallet |-> FALSE]

Reqs == 1..MaxReq

Resp(status, error, hash, txHash, signature, details) ==
    [status |-> status, error |-> error, hash |-> hash, txHash |-> txHash,
     signature |-> signature, details |-> details]

NewReq == [pc |-> "idle", file |-> "none", hash |-> Undef, prior |-> FALSE,
           nonce |-> -1, verifyCalls |-> 0, aiCalls |-> 0, storeCalls |-> 0,
           sendCalls |-> 0, signCalls |-> 0, thrown |-> NoErr, resp |-> Resp(0, "", Undef, 0, NoSig, NoDetails)]

CertInit ==
    /\ env \in Envs
    /\ client = ClientInit
    /\ chain = {}
    /\ txCount = 0
    /\ mempool = [r \in Reqs |-> "none"]
    /\ req = [r \in Reqs |-> NewReq]

----------------------------------------------------------------------------
(* POST /certify (routes/certify.ts), one action per await. *)

\* res.status(..).json(..): the request ends.
Finish(r, q, resp) == req' = [req EXCEPT ![r] = [q EXCEPT !.pc = "done", !.resp = resp]]

\* A certify request for the same bytes has already been answered 200.
Succeeded(hash) == \E q \in Reqs : req[q].resp.status = 200 /\ req[q].hash = hash

\* The request arrives; without a file it ends at once, else the digest is
\* computed and the duplicate check is sent to the chain.
CertifyStart(r, file) ==
    /\ req[r].pc = "idle"
    /\ IF file = "none"
         THEN Finish(r, req[r], Resp(400, "File non fornito", Undef, 0, NoSig, NoDetails))
         ELSE req' = [req EXCEPT ![r] =
                        [@ EXCEPT !.pc = "check", !.file = file,
                                  !.hash = generateSHA256(file),
                                  !.prior = Succeeded(generateSHA256(file)),
                                  !.verifyCalls = 1]]
    /\ UNCHANGED <<env, client, chain, txCount, mempool>>
    /\ UNCHANGED <<verVars, libVars>>

\* storeHash up to its first await: the digest is normalised, the signer and
\* the write contract are initialised.
StoreHashBegin(c, hash) ==
    LET n == normalizeBytes32(hash)
        w == getSignerWallet(c)
        wc == getWriteContract(w.c)
    IN  IF ~n.ok
          THEN [ok |-> FALSE, c |-> c,
                err |-> PlainError("L'hash deve contenere 64 caratteri hex (32 byte)")]
        ELSE IF ~w.ok
          THEN [ok |-> FALSE, c |-> w.c,
                err |-> PlainError("Variabile d'ambiente non configurata")]
        ELSE IF ~wc.ok
          THEN [ok |-> FALSE, c |-> wc.c,
                err |-> PlainError("Variabile d'ambiente non configurata")]
        ELSE [ok |-> TRUE, c |-> wc.c, err |-> NoErr]

\* catch around storeHash: 502 with the formatted error.
ChainWriteFailed(r, q, error) ==
    Finish(r, [q EXCEPT !.thrown = error],
           Resp(502, "Scrittura on-chain fallita", Undef, 0, NoSig,
                formatBlockchainError(error)))

\* The duplicate check made exclusive: it also refuses a digest that another
\* request in flight has already taken past its own check.
CertifyCheck_Exclusive(r, rpcOk) ==
    /\ req[r].pc = "check"
    /\ LET v == verifyHashOnChain(client, req[r].hash, rpcOk)
           taken == \E q \in Reqs \ {r} :
                       /\ req[q].hash = req[r].hash
                       /\ req[q].pc \in {"ai", "populate", "nonce", "send", "wait"}
       IN  /\ client' = v.c
           /\ IF v.exists \/ taken
                THEN Finish(r, req[r], Resp(409, "File gia certificato", req[r].hash,
                                            0, NoSig, NoDetails))
                ELSE req' = [req EXCEPT ![r] = [@ EXCEPT !.pc = "ai", !.aiCalls = 1]]
    /\ UNCHANGED <<env, chain, txCount, mempool>>
    /\ UNCHANGED <<verVars, libVars>>

\* The duplicate check answers: 409 when the digest is on chain, else the
\* document goes to the AI service.
CertifyCheck(r, rpcOk) ==
    /\ req[r].pc = "check"
    /\ LET v == verifyHashOnChain(client, req[r].hash, rpcOk)
       IN  /\ client' = v.c
           /\ IF v.exists
                THEN Finish(r, req[r], Resp(409, "File gia certificato", req[r].hash,
                                            0, NoSig, NoDetails))
                ELSE req' = [req EXCEPT ![r] = [@ EXCEPT !.pc = "ai", !.aiCalls = 1]]
    /\ UNCHANGED <<env, chain, txCount, mempool>>
    /\ UNCHANGED <<verVars, libVars>>

\* The AI step with the chain write started before the AI result is looked at.
CertifyAI_WriteFirst(r, aiOk) ==
    /\ req[r].pc = "ai"
    /\ LET b == StoreHashBegin(client, req[r].hash)
           q == [req[r] EXCEPT !.storeCalls = @ + 1]
       IN  /\ client' = b.c
           /\ IF ~aiOk
                THEN Finish(r, q, Resp(502, "Analisi AI fallita", Undef, 0, NoSig, NoDetails))
                ELSE IF b.ok
                       THEN req' = [req EXCEPT ![r] = [q EXCEPT !.pc = "populate"]]
                       ELSE ChainWriteFailed(r, q, b.err)
    /\ UNCHANGED <<env, chain, txCount, mempool>>
    /\ UNCHANGED <<verVars, libVars>>

\* The AI service answers: on failure 502, else storeHash is called and runs
\* to its first await (populateTransaction).
CertifyAI(r, aiOk) ==
    /\ req[r].pc = "ai"
    /\ IF ~aiOk
         THEN /\ Finish(r, req[r], Resp(502, "Analisi AI fallita", Undef, 0, NoSig, NoDetails))
              /\ UNCHANGED client
         ELSE LET b == StoreHashBegin(client, req[r].hash)
                  q == [req[r] EXCEPT !.storeCalls = @ + 1]
              IN  /\ client' = b.c
                  /\ IF b.ok
                       THEN req' = [req EXCEPT ![r] = [q EXCEPT !.pc = "populate"]]
                       ELSE ChainWriteFailed(r, q, b.err)
    /\ UNCHANGED <<env, chain, txCount, mempool>>
    /\ UNCHANGED <<verVars, libVars>>

\* populateTransaction answers; getFreshNonce is called next.
StorePopulate(r, error) ==
    /\ req[r].pc = "populate"
    /\ IF error = NoErr
         THEN req' = [req EXCEPT ![r] = [@ EXCEPT !.pc = "nonce"]]
         ELSE ChainWriteFailed(r, req[r], error)
    /\ UNCHANGED <<env, client, chain, txCount, mempool>>
    /\ UNCHANGED <<verVars, libVars>>

\* The nonce read with a reservation: the count is raised by the nonces other
\* calls have read and not yet sent.
StoreNonce_Reserving(r, error) ==
    /\ req[r].pc = "nonce"
    /\ IF error = NoErr
         THEN req' = [req EXCEPT ![r] =
                        [@ EXCEPT !.pc = "send",
                                  !.nonce = txCount + Cardinality({ q \in Reqs : req[q].pc = "send" }),
                                  !.sendCalls = @ + 1]]
         ELSE ChainWriteFailed(r, req[r], error)
    /\ UNCHANGED <<env, client, chain, txCount, mempool>>
    /\ UNCHANGED <<verVars, libVars>>

\* getTransactionCount(address, "pending") answers; sendTransaction is called next.
StoreNonce(r, error) ==
    /\ req[r].pc = "nonce"
    /\ IF error = NoErr
         THEN req' = [req EXCEPT ![r] = [@ EXCEPT !.pc = "send", !.nonce = txCount,
                                                   !.sendCalls = @ + 1]]
         ELSE ChainWriteFailed(r, req[r], error)
    /\ UNCHANGED <<env, client, chain, txCount, mempool>>
    /\ UNCHANGED <<verVars, libVars>>

\* The node answers sendTransaction: it takes the transaction when its nonce
\* is the signer's next one, and refuses a nonce already used.
StoreSend(r, error) ==
    /\ req[r].pc = "send"
    /\ IF error # NoErr
         THEN /\ ChainWriteFailed(r, req[r], error)
              /\ UNCHANGED <<txCount, mempool>>
         ELSE IF req[r].nonce # txCount
           THEN /\ ChainWriteFailed(r, req[r],
                                 Err(TRUE, "NONCE_EXPIRED", "nonce has already been used",
                                     "nonce too low", "info"))
                /\ UNCHANGED <<txCount, mempool>>
           ELSE /\ req' = [req EXCEPT ![r] = [@ EXCEPT !.pc = "wait"]]
                /\ txCount' = txCount + 1
                /\ mempool' = [mempool EXCEPT ![r] = "pending"]
    /\ UNCHANGED <<env, client, chain>>
    /\ UNCHANGED <<verVars, libVars>>

\* The chain mines a pending transaction: the contract stores the digest, or
\* the call reverts.
Mine(r, ok) ==
    /\ mempool[r] = "pending"
    /\ mempool' = [mempool EXCEPT ![r] = IF ok THEN "mined" ELSE "reverted"]
    /\ chain' = IF ok THEN chain \cup {Bytes32(req[r].hash)} ELSE chain
    /\ UNCHANGED <<env, client, txCount, req>>
    /\ UNCHANGED <<verVars, libVars>>

\* storeHash returning the identifier of the transaction as soon as it is
\* sent, without the confirmation wait.
CertifyConfirm_NoWait(r) ==
    /\ req[r].pc = "wait"
    /\ LET s == signHash(req[r].hash)
           q == [req[r] EXCEPT !.signCalls = @ + 1]
       IN  IF s.ok
             THEN Finish(r, q, Resp(200, "", q.hash, r, s.sig, NoDetails))
             ELSE Finish(r, q, Resp(500, "Errore durante la certificazione",
                                    Undef, 0, NoSig, NoDetails))
    /\ UNCHANGED <<env, client, chain, txCount, mempool>>
    /\ UNCHANGED <<verVars, libVars>>

\* tx.wait() answers; with a receipt the handler signs the digest and responds.
CertifyConfirm(r) ==
    /\ req[r].pc = "wait"
    /\ mempool[r] \in {"mined", "reverted"}
    /\ IF mempool[r] = "reverted"
         THEN ChainWriteFailed(r, req[r],
                               Err(TRUE, "CALL_EXCEPTION", "transaction execution reverted",
                                   "transaction execution reverted", "info"))
         ELSE LET s == signHash(req[r].hash)
                  q == [req[r] EXCEPT !.signCalls = @ + 1]
              IN  IF s.ok
                    THEN Finish(r, q, Resp(200, "", q.hash, r, s.sig, NoDetails))
                    ELSE Finish(r, q, Resp(500, "Errore durante la certificazione",
                                           Undef, 0, NoSig, NoDetails))
    /\ UNCHANGED <<env, client, chain, txCount, mempool>>
    /\ UNCHANGED <<verVars, libVars>>

----------------------------------------------------------------------------
(* The certificate store (utils/db.ts) and the object storage (utils/upload). *)

Digests == { generateSHA256(b) : b \in Buffers }

Cert(hash, fileKey, txHash, signature) ==
    [hash |-> hash, fileKey |-> fileKey, txHash |-> txHash, signature |-> signature]

\* db[hash] of a key that is not there (undefined), answered as null.
NoRecord == Cert(Undef, "", 0, NoSig)

\* ensureDbExists: a missing data/certificates.json is created holding {}.
ensureDbExists(st) == [st EXCEPT !.exists = TRUE]

\* getCertificateByHash: the record under exactly this key string, or null.
getCertificateByHash(st, hash) ==
    LET rows == ensureDbExists(st).rows
    IN  IF hash \in DOMAIN rows THEN rows[hash] ELSE NoRecord

R2Keys == {"k1"}

ObjectAt(key) == IF key \in DOMAIN r2 THEN r2[key] ELSE "absent"

\* fileExists: true when GetObject answers, false on NoSuchKey / 404, and any
\* other failure of the storage service is thrown on.
fileExists(key, s3) ==
    IF s3 = "existsFails" THEN [ok |-> FALSE, exists |-> FALSE]
    ELSE [ok |-> TRUE, exists |-> ObjectAt(key) # "absent"]

\* downloadFile: the object's bytes; throws when the service fails or there is no body.
downloadFile(key, s3) ==
    IF s3 = "downloadFails" \/ ObjectAt(key) = "absent"
      THEN [ok |-> FALSE, body |-> "absent"]
      ELSE [ok |-> TRUE, body |-> ObjectAt(key)]

----------------------------------------------------------------------------
(* Requests to GET /verify and POST /verify and their answers. *)

\* The p query parameter: absent, or base64 text that decodes to something
\* JSON.parse rejects ("garbage"), to JSON null, to a JSON number or string
\* ("prim"), or to an object with the fields the handler reads.
Payload(kind, hash, sig, url) == [kind |-> kind, hash |-> hash, sig |-> sig, url |-> url]

NoP == Payload("none", Undef, NoSig, FALSE)

Garbage == Sig("garbage", Undef)

\* routes/certify.ts: the payload a 200 answer carries for the QR code; the
\* client sends it back as p = base64(JSON.stringify(qrPayload)).  It has the
\* digest and the signature and no presignedUrl.
qrPayload(hash, signature) == Payload("obj", hash, signature, FALSE)

\* Payloads without and with a presignedUrl field.
Payloads ==
    { NoP, Payload("garbage", Undef, NoSig, FALSE), Payload("null", Undef, NoSig, FALSE),
      Payload("prim", Undef, NoSig, FALSE) }
    \cup { Payload("obj", h, s, FALSE) :
             h \in {Undef, generateSHA256("b1")},
             s \in {NoSig, Sig("server", generateSHA256("b1")), Garbage} }

UrlPayloads ==
    { Payload("obj", h, s, TRUE) :
        h \in {Undef, generateSHA256("b1")},
        s \in {NoSig, Sig("server", generateSHA256("b1")), Garbage} }

\* Values of the hash query parameter and of the hash form field: absent, a
\* digest, a string that is too short.
HashParams == { Undef, generateSHA256("b1"), Str(FALSE, FALSE, 10, TRUE, "b1") }

\* Buffer.from(p, "base64").toString("utf-8") and JSON.parse: throws on text
\* that is no JSON; the value otherwise.
DecodePayload(p) ==
    IF p.kind = "garbage" THEN [ok |-> FALSE, val |-> NoP] ELSE [ok |-> TRUE, val |-> p]

\* qrPayload.hash: throws on null, undefined on a number or a string.
PayloadHash(val) ==
    IF val.kind = "null" THEN [ok |-> FALSE, hash |-> Undef]
    ELSE IF val.kind = "obj" THEN [ok |-> TRUE, hash |-> val.hash]
    ELSE [ok |-> TRUE, hash |-> Undef]

BadPayload == "Payload base64 non valido"
MissingParam == "Parametro hash o p (payload) mancante"
HashNotFound == "Hash non trovato"

\* The first lines of verifyCertificate, the same in its three variants: the
\* target hash comes from p when p is given, else from hash.
ResolveTarget(hashQ, p) ==
    IF p.kind # "none"
      THEN LET d == DecodePayload(p)
               h == PayloadHash(d.val)
           IN  IF ~d.ok \/ ~h.ok
                 THEN [error |-> BadPayload, target |-> Undef, qr |-> NoP]
               ELSE IF ~Truthy(h.hash)
                 THEN [error |-> HashNotFound, target |-> Undef, qr |-> d.val]
               ELSE [error |-> "", target |-> h.hash, qr |-> d.val]
    ELSE IF Truthy(hashQ)
      THEN [error |-> "", target |-> hashQ, qr |-> NoP]
    ELSE [error |-> MissingParam, target |-> Undef, qr |-> NoP]

\* A check of the answer: "true", "false" or "null".
Tri(b) == IF b THEN "true" ELSE "false"

Checks(dbExists, r2Access, hashMatch, onChain, signature) ==
    [dbExists |-> dbExists, r2Access |-> r2Access, hashMatch |-> hashMatch,
     onChain |-> onChain, signature |-> signature]

NoChecks == Checks("null", "null", "null", "null", "null")

VRes(kind, hashQ, p, file, status, error, verified, target, checks, queried, cert, match, fileMatch) ==
    [kind |-> kind, hashQ |-> hashQ, p |-> p, file |-> file, status |-> status,
     error |-> error, verified |-> verified, target |-> target, checks |-> checks,
     queried |-> queried, cert |-> cert, match |-> match, fileMatch |-> fileMatch,
     \* what was true when the answer was given
     written |-> Bytes32(target) \in chain,
     certified |-> file # "none" /\ Succeeded(generateSHA256(file)),
     otherCertified |-> \E b \in Buffers : b # file /\ Succeeded(generateSHA256(b)),
     roundTrip |-> \E q \in Reqs : /\ req[q].resp.status = 200
                                    /\ p = qrPayload(req[q].resp.hash, req[q].resp.signature)]

NoVRes == VRes("none", Undef, NoP, "none", 0, "", FALSE, Undef, NoChecks, FALSE,
               NoRecord, "null", "null")

\* A 400 of GET /verify.
VBad(kind, hashQ, p, error) ==
    VRes(kind, hashQ, p, "none", 400, error, FALSE, Undef, NoChecks, FALSE, NoRecord,
         "null", "null")

\* checks.signature: false unless a signature is there and verifies; a throw
\* of verifySignature is caught and counts as false.
SignatureCheck(target, sig) ==
    IF ~SigTruthy(sig) THEN FALSE
    ELSE LET v == verifySignature(target, sig) IN v.ok /\ v.valid

\* qrPayload?.sig || certificate?.signature
SignatureToVerify(qr, cert) == IF SigTruthy(qr.sig) THEN qr.sig ELSE cert.signature

----------------------------------------------------------------------------
(* GET /verify.  A handler reads the chain, the store and the storage once   *)
(* each, so its answer is computed in one step from the state it finds.      *)

\* verifyOnChain of utils/blockchain.ts: verifyHashOnChain, wrapped.
verifyOnChain(c, hash, rpcOk) == verifyHashOnChain(c, hash, rpcOk)

\* routes/verify.ts, step 2: r2Access and hashMatch from the stored object.
\* The catch resets r2Access when fileExists or downloadFile throws.
StoredObjectChecks(cert, target, s3) ==
    LET e == fileExists(cert.fileKey, s3)
        d == downloadFile(cert.fileKey, s3)
    IN  IF ~e.ok \/ ~e.exists THEN [r2Access |-> FALSE, hashMatch |-> FALSE]
        ELSE IF ~d.ok THEN [r2Access |-> FALSE, hashMatch |-> FALSE]
        ELSE [r2Access |-> TRUE, hashMatch |-> generateSHA256(d.body) = target]

\* routes/verify.ts, step 3: when the payload names a presignedUrl and the
\* fetch answers ok, hashMatch is set again from the fetched bytes.
PresignedCheck(qr, target, fetched, hashMatch) ==
    IF qr.url /\ fetched # "fail" THEN generateSHA256(fetched) = target ELSE hashMatch

\* routes/verify.ts: verified only when every check passes (dbExists is true
\* wherever this is computed).
StrictVerdict_NoSignature(r2Access, hashMatch, onChain, signature) ==
    r2Access /\ hashMatch /\ onChain

StrictVerdict(r2Access, hashMatch, onChain, signature) ==
    r2Access /\ hashMatch /\ onChain /\ signature

\* unnamed/part_003: on chain and, if a signature came with the payload, that
\* signature valid.
MinimalVerdict_ChainOnly(chainResponse, signatureRequired, signature) == chainResponse

MinimalVerdict(chainResponse, signatureRequired, signature) ==
    chainResponse /\ (~signatureRequired \/ signature)

\* routes/verify.ts: the variant the server is wired to.
verifyCertificate(hashQ, p, s3, fetched, rpcOk) ==
    LET t == ResolveTarget(hashQ, p)
        cert == getCertificateByHash(store, t.target)
        o == StoredObjectChecks(cert, t.target, s3)
        hashMatch == PresignedCheck(t.qr, t.target, fetched, o.hashMatch)
        cv == verifyOnChain(client, t.target, rpcOk)
        sg == SignatureCheck(t.target, SignatureToVerify(t.qr, cert))
        verified == StrictVerdict(o.r2Access, hashMatch, cv.exists, sg)
    IN  IF t.error # ""
          THEN /\ vres' = VBad("strict", hashQ, p, t.error)
               /\ UNCHANGED <<client, store>>
        ELSE IF cert = NoRecord
          THEN /\ vres' = VRes("strict", hashQ, p, "none", 200,
                               "Certificato non trovato nel database", FALSE, t.target,
                               Checks("false", "null", "null", "null", "null"),
                               FALSE, NoRecord, "null", "null")
               /\ store' = ensureDbExists(store)
               /\ UNCHANGED client
        ELSE /\ vres' = VRes("strict", hashQ, p, "none", 200, "", verified, t.target,
                             Checks("true", Tri(o.r2Access), Tri(hashMatch),
                                    Tri(cv.exists), Tri(sg)),
                             TRUE, cert, "null", "null")
             /\ store' = ensureDbExists(store)
             /\ client' = cv.c

\* unnamed/part_000: chain first, then the store; the verdict is the chain's answer.
verifyCertificateDb(hashQ, p, rpcOk) ==
    LET t == ResolveTarget(hashQ, p)
        cv == verifyHashOnChain(client, t.target, rpcOk)
        cert == getCertificateByHash(store, t.target)
        sg == SignatureCheck(t.target, SignatureToVerify(t.qr, cert))
    IN  IF t.error # ""
          THEN /\ vres' = VBad("db", hashQ, p, t.error)
               /\ UNCHANGED <<client, store>>
          ELSE /\ vres' = VRes("db", hashQ, p, "none", 200, "", cv.exists, t.target,
                               Checks(Tri(cert # NoRecord), "null", "null",
                                      Tri(cv.exists), Tri(sg)),
                               TRUE, cert, "null", "null")
               /\ store' = ensureDbExists(store)
               /\ client' = cv.c

\* unnamed/part_003: no store; on chain and, when the payload carries a
\* signature, that signature valid.
verifyCertificateMinimal(hashQ, p, rpcOk) ==
    LET t == ResolveTarget(hashQ, p)
        cv == verifyHashOnChain(client, t.target, rpcOk)
        sg == SignatureCheck(t.target, t.qr.sig)
        signatureRequired == SigTruthy(t.qr.sig)
        verified == MinimalVerdict(cv.exists, signatureRequired, sg)
    IN  /\ IF t.error # ""
             THEN /\ vres' = VBad("minimal", hashQ, p, t.error)
                  /\ UNCHANGED client
             ELSE /\ vres' = VRes("minimal", hashQ, p, "none", 200, "", verified, t.target,
                                  Checks("null", "null", "null", Tri(cv.exists), Tri(sg)),
                                  TRUE, NoRecord, "null", "null")
                  /\ client' = cv.c
        /\ UNCHANGED store

----------------------------------------------------------------------------
(* POST /verify. *)

FileOrHash == "File o hash richiesto"

\* routes/verify.ts (and unnamed/part_000): the record is looked up under the
\* file's digest, or under the hash field when there is no file.
verifyByFile(file, hash) ==
    LET target == IF file # "none" THEN generateSHA256(file) ELSE hash
        cert == getCertificateByHash(store, target)
        match == file # "none" /\ generateSHA256(file) = target
    IN  /\ IF file = "none" /\ ~Truthy(hash)
             THEN /\ vres' = VRes("file", hash, NoP, file, 400, FileOrHash, FALSE, Undef,
                                  NoChecks, FALSE, NoRecord, "null", "null")
                  /\ UNCHANGED store
           ELSE IF cert = NoRecord
             THEN /\ vres' = VRes("file", hash, NoP, file, 200, "Certificato non trovato",
                                  FALSE, target, NoChecks, FALSE, NoRecord, "false", "null")
                  /\ store' = ensureDbExists(store)
           ELSE /\ vres' = VRes("file", hash, NoP, file, 200, "", match, target,
                                NoChecks, FALSE, cert, Tri(match), "null")
                /\ store' = ensureDbExists(store)
        /\ UNCHANGED client

\* unnamed/part_003: no store; the answer carries fileMatch and the chain's answer.
verifyByFileMinimal(file, hash, rpcOk) ==
    LET target == IF file # "none" THEN generateSHA256(file) ELSE hash
        fileMatch == IF file # "none" THEN Tri(generateSHA256(file) = target) ELSE "null"
        cv == verifyHashOnChain(client, target, rpcOk)
    IN  /\ IF file = "none" /\ ~Truthy(hash)
             THEN /\ vres' = VRes("fileMinimal", hash, NoP, file, 400, FileOrHash, FALSE,
                                  Undef, NoChecks, FALSE, NoRecord, "null", "null")
                  /\ UNCHANGED client
             ELSE /\ vres' = VRes("fileMinimal", hash, NoP, file, 200, "",
                                  cv.exists /\ fileMatch # "false", target,
                                  Checks("null", "null", "null", Tri(cv.exists), "null"),
                                  TRUE, NoRecord, "null", fileMatch)
                  /\ client' = cv.c
        /\ UNCHANGED store

----------------------------------------------------------------------------
(* utils/db.ts: saveCertificate and getCertificateByHash, one action per    *)
(* await.  Each file operation is taken as atomic.                           *)

MaxCalls == 2
MaxSaves == 2

Calls == 1..MaxCalls

EmptyDb == [h \in Digests |-> NoRecord]

\* The records a caller can pass: for each digest, from two transactions.
SaveRecords == { Cert(h, "k1", t, Sig("server", h)) : h \in Digests, t \in 1..MaxSaves }

IdleCall == [op |-> "none", pc |-> "idle", record |-> NoRecord, key |-> Undef,
             db |-> EmptyDb, result |-> NoRecord]

DbInit ==
    /\ calls = [c \in Calls |-> IdleCall]
    /\ lastSaved = EmptyDb
    /\ saveCount = [h \in Digests |-> 0]

NoneRunning == \A c \in Calls : calls[c].pc \in {"idle", "done"}

\* saveCertificate(record) is called: ensureDbExists starts, mkdir is done.
saveCertificate(c, record) ==
    /\ calls[c].pc \in {"idle", "done"}
    /\ saveCount[record.hash] < MaxSaves
    /\ calls' = [calls EXCEPT ![c] = [IdleCall EXCEPT !.op = "save", !.pc = "access",
                                                      !.record = record]]
    /\ saveCount' = [saveCount EXCEPT ![record.hash] = @ + 1]
    /\ UNCHANGED <<store, lastSaved>>
    /\ UNCHANGED <<certVars, r2, vres, userVars, readVars, docVars, raceVars>>

\* getCertificateByHash(hash) is called: ensureDbExists starts, mkdir is done.
getCertificateCall(c, hash) ==
    /\ calls[c].pc \in {"idle", "done"}
    /\ calls' = [calls EXCEPT ![c] = [IdleCall EXCEPT !.op = "get", !.pc = "access",
                                                      !.key = hash]]
    /\ UNCHANGED <<store, lastSaved, saveCount>>
    /\ UNCHANGED <<certVars, r2, vres, userVars, readVars, docVars, raceVars>>

\* fs.access answers: the file is there, or the catch branch is entered.
DbAccess(c) ==
    /\ calls[c].pc = "access"
    /\ calls' = [calls EXCEPT ![c].pc = IF store.exists THEN "read" ELSE "create"]
    /\ UNCHANGED <<store, lastSaved, saveCount>>
    /\ UNCHANGED <<certVars, r2, vres, userVars, readVars, docVars, raceVars>>

\* The catch branch of ensureDbExists: the file is written holding {}.
DbCreate(c) ==
    /\ calls[c].pc = "create"
    /\ store' = [exists |-> TRUE, rows |-> EmptyDb]
    /\ calls' = [calls EXCEPT ![c].pc = "read"]
    /\ UNCHANGED <<lastSaved, saveCount>>
    /\ UNCHANGED <<certVars, r2, vres, userVars, readVars, docVars, raceVars>>

\* readFile and JSON.parse: the call holds the file's content; a get call
\* returns db[hash] || null.
DbRead(c) ==
    /\ calls[c].pc = "read"
    /\ LET call == calls[c]
       IN  calls' = [calls EXCEPT ![c] =
                       IF call.op = "get"
                         THEN [call EXCEPT !.pc = "done", !.db = store.rows,
                                           !.result = getCertificateByHash(store, call.key)]
                         ELSE [call EXCEPT !.pc = "write", !.db = store.rows]]
    /\ UNCHANGED <<store, lastSaved, saveCount>>
    /\ UNCHANGED <<certVars, r2, vres, userVars, readVars, docVars, raceVars>>

\* db[record.hash] = record with the first record kept when the key is taken.
DbWrite_KeepFirst(c) ==
    /\ calls[c].pc = "write"
    /\ LET record == calls[c].record
           db == calls[c].db
       IN  /\ store' = [exists |-> TRUE,
                        rows |-> IF db[record.hash] = NoRecord
                                   THEN [db EXCEPT ![record.hash] = record] ELSE db]
           /\ lastSaved' = [lastSaved EXCEPT ![record.hash] = record]
    /\ calls' = [calls EXCEPT ![c].pc = "done"]
    /\ UNCHANGED saveCount
    /\ UNCHANGED <<certVars, r2, vres, userVars, readVars, docVars, raceVars>>

\* db[record.hash] = record and writeFile: the content the call read, with
\* the record under its hash, replaces the file; saveCertificate returns.
DbWrite(c) ==
    /\ calls[c].pc = "write"
    /\ LET record == calls[c].record
       IN  /\ store' = [exists |-> TRUE, rows |-> [calls[c].db EXCEPT ![record.hash] = record]]
           /\ lastSaved' = [lastSaved EXCEPT ![record.hash] = record]
    /\ calls' = [calls EXCEPT ![c].pc = "done"]
    /\ UNCHANGED saveCount
    /\ UNCHANGED <<certVars, r2, vres, userVars, readVars, docVars, raceVars>>

\* Calls made one after the other: a call starts when no other is running.
SaveAlone(c, record) == NoneRunning /\ saveCertificate(c, record)

GetAlone(c, hash) == NoneRunning /\ getCertificateCall(c, hash)

----------------------------------------------------------------------------
(* models/User.ts, routes/users.ts and routes/auth.ts: the account store    *)
(* and its handlers, one action per request.                                *)

MaxId == 2

\* An email string: its address, whether it has upper-case letters, whether
\* it has white space around it, whether the rest has the shape x@y.z.
Email(local, upper, ws, shaped) == [local |-> local, upper |-> upper, ws |-> ws, shaped |-> shaped]

NoEmail == Email("", FALSE, FALSE, FALSE)

\* The address check without the white-space classes.
emailRegex_NoSpaceCheck(email) == email.shaped

\* /^[^\s@]+@[^\s@]+\.[^\s@]+$/.test(email)
emailRegex(email) == email.shaped /\ ~email.ws

\* The address taken as it was sent.
NormalizeEmail_AsSent(email) == email

\* email.toLowerCase().trim()
NormalizeEmail(email) == [email EXCEPT !.upper = FALSE, !.ws = FALSE]

\* A username string: its text and whether it has white space around it;
\* text "" with white space is a string of blanks.
Username(text, ws) == [text |-> text, ws |-> ws]

NoUsername == Username("", FALSE)

\* username.trim()
TrimUsername(username) == [username EXCEPT !.ws = FALSE]

\* A password string and its length.
Password(text, len) == [text |-> text, len |-> len]

NoPassword == Password("", 0)

MinPasswordLength == 6

\* bcrypt.hash and bcrypt.compare
bcryptHash(password) == [of |-> password.text]

bcryptCompare(password, passwordHash) == passwordHash.of = password.text

allowedRoles == {"admin", "issuer", "holder", "verifier"}

allowedStatuses == {"active", "inactive", "suspended"}

\* A stored account.
Account(id, email, username, passwordHash, role, status, isActive, lastLoginAt) ==
    [id |-> id, email |-> email, username |-> username, passwordHash |-> passwordHash,
     role |-> role, status |-> status, isActive |-> isActive, lastLoginAt |-> lastLoginAt]

\* A request body; "" and "undefined" stand for a field that is not sent.
Body(email, username, password, named, role, status, isActive) ==
    [email |-> email, username |-> username, password |-> password, named |-> named,
     role |-> role, status |-> status, isActive |-> isActive]

NoBody == Body(NoEmail, NoUsername, NoPassword, FALSE, "", "", "undefined")

\* User.findOne by email, by id.
FindByEmail(email) == { a \in users : a.email = email }

FindById(userId) == { a \in users : a.id = userId }

\* UserSchema.statics.getNextId: one more than the highest stored id.
getNextId ==
    IF users = {} THEN 1
    ELSE (CHOOSE a \in users : \A other \in users : other.id <= a.id).id + 1

\* Schema validation at save: username is required, and "" is not a value.
Validates(account) == account.username.text # ""

\* A collection whose only unique index is the one on id.
DuplicateKey_IdOnly(account, others) == \E a \in others : a.id = account.id

\* The unique indexes on id, email and username.
DuplicateKey(account, others) ==
    \E a \in others : a.id = account.id \/ a.email = account.email
                        \/ a.username = account.username

URes(op, id, body, status, error, newId) ==
    [op |-> op, id |-> id, body |-> body, status |-> status, error |-> error,
     newId |-> newId,
     \* what was stored, and the highest id given, when the request arrived
     before |-> users, prevMaxId |-> maxId]

NoURes == [op |-> "none", id |-> 0, body |-> NoBody, status |-> 0, error |-> "",
           newId |-> 0, before |-> {}, prevMaxId |-> 0]

UserInit ==
    /\ users = {}
    /\ maxId = 0
    /\ ures = NoURes

Rejected(status, error) == [status |-> status, error |-> error, account |-> Account(0, NoEmail, NoUsername, bcryptHash(NoPassword), "", "", FALSE, FALSE)]

\* The body of createUser and of register up to the answer.  register does
\* not read status and isActive: it stores "active" and the schema default.
CreateOutcome(body, readsStatus) ==
    LET email == NormalizeEmail(body.email)
        username == TrimUsername(body.username)
        account == Account(getNextId, email, username, bcryptHash(body.password),
                           IF body.role # "" THEN body.role ELSE "verifier",
                           IF readsStatus /\ body.status # "" THEN body.status ELSE "active",
                           IF readsStatus /\ body.isActive # "undefined"
                             THEN body.isActive = "true" ELSE TRUE,
                           FALSE)
    IN  IF \/ body.email = NoEmail \/ body.username = NoUsername
           \/ body.password = NoPassword \/ ~body.named
          THEN Rejected(400, "required")
        ELSE IF ~emailRegex(body.email) THEN Rejected(400, "email")
        ELSE IF body.password.len < MinPasswordLength THEN Rejected(400, "password")
        ELSE IF body.role # "" /\ body.role \notin allowedRoles THEN Rejected(400, "role")
        ELSE IF readsStatus /\ body.status # "" /\ body.status \notin allowedStatuses
          THEN Rejected(400, "status")
        ELSE IF FindByEmail(email) # {} THEN Rejected(409, "email")
        ELSE IF { a \in users : a.username = username } # {} THEN Rejected(409, "username")
        ELSE IF ~Validates(account) THEN Rejected(500, "save")
        ELSE IF DuplicateKey(account, users) THEN Rejected(409, "E11000")
        ELSE [status |-> 201, error |-> "", account |-> account]

Create(op, body, readsStatus) ==
    LET out == CreateOutcome(body, readsStatus)
    IN  /\ ures = NoURes
        /\ getNextId <= MaxId
        /\ ures' = URes(op, 0, body, out.status, out.error, out.account.id)
        /\ users' = IF out.status = 201 THEN users \cup {out.account} ELSE users
        /\ maxId' = IF out.status = 201 /\ out.account.id > maxId THEN out.account.id ELSE maxId
        /\ UNCHANGED <<certVars, verVars, dbVars, readVars, docVars, raceVars>>

\* POST /users
createUser(body) == Create("create", body, TRUE)

\* POST /auth/register
register(body) == Create("register", body, FALSE)

\* The body of updateUser and of patchUser up to the answer: each field that
\* is sent is validated and set on the loaded document, which is then saved.
UpdateOutcome(userId, body) ==
    LET found == FindById(userId)
        user == CHOOSE a \in found : TRUE
        email == NormalizeEmail(body.email)
        username == TrimUsername(body.username)
        others == { a \in users : a.id # userId }
        changed == [user EXCEPT
                      !.email = IF body.email # NoEmail THEN email ELSE @,
                      !.username = IF body.username # NoUsername THEN username ELSE @,
                      !.passwordHash = IF body.password # NoPassword
                                         THEN bcryptHash(body.password) ELSE @,
                      !.role = IF body.role # "" THEN body.role ELSE @,
                      !.status = IF body.status # "" THEN body.status ELSE @,
                      !.isActive = IF body.isActive # "undefined"
                                     THEN body.isActive = "true" ELSE @]
    IN  IF userId < 1 THEN Rejected(400, "id")
        ELSE IF found = {} THEN Rejected(404, "user")
        ELSE IF body.email # NoEmail /\ ~emailRegex(body.email) THEN Rejected(400, "email")
        ELSE IF body.email # NoEmail /\ \E a \in others : a.email = email
          THEN Rejected(409, "email")
        ELSE IF body.username # NoUsername /\ \E a \in others : a.username = username
          THEN Rejected(409, "username")
        ELSE IF body.password # NoPassword /\ body.password.len < MinPasswordLength
          THEN Rejected(400, "password")
        ELSE IF body.role # "" /\ body.role \notin allowedRoles THEN Rejected(400, "role")
        ELSE IF body.status # "" /\ body.status \notin allowedStatuses
          THEN Rejected(400, "status")
        ELSE IF ~Validates(changed) THEN Rejected(500, "save")
        ELSE IF DuplicateKey(changed, others) THEN Rejected(409, "E11000")
        ELSE [status |-> 200, error |-> "", account |-> changed]

\* An update whose early return still saves the email already set on the
\* loaded document.
Update_SavesAssigned(op, userId, body) ==
    LET out == UpdateOutcome(userId, body)
        found == FindById(userId)
        user == CHOOSE a \in found : TRUE
        late == out.status \in {400, 409} /\ out.error \in {"username", "password", "role", "status"}
    IN  /\ ures = NoURes
        /\ ures' = URes(op, userId, body, out.status, out.error, 0)
        /\ users' = IF out.status = 200
                      THEN { a \in users : a.id # userId } \cup {out.account}
                      ELSE IF late /\ body.email # NoEmail
                        THEN { a \in users : a.id # userId }
                               \cup {[user EXCEPT !.email = NormalizeEmail(body.email)]}
                        ELSE users
        /\ UNCHANGED maxId
        /\ UNCHANGED <<certVars, verVars, dbVars, readVars, docVars, raceVars>>

Update(op, userId, body) ==
    LET out == UpdateOutcome(userId, body)
    IN  /\ ures = NoURes
        /\ ures' = URes(op, userId, body, out.status, out.error, 0)
        /\ users' = IF out.status = 200
                      THEN { a \in users : a.id # userId } \cup {out.account} ELSE users
        /\ UNCHANGED maxId
        /\ UNCHANGED <<certVars, verVars, dbVars, readVars, docVars, raceVars>>

\* PUT /users/:id
updateUser(userId, body) == Update("update", userId, body)

\* PATCH /users/:id
patchUser(userId, body) == Update("patch", userId, body)

\* DELETE /users/:id: findOneAndDelete.
deleteUser(userId) ==
    LET found == FindById(userId)
        status == IF userId < 1 THEN 400 ELSE IF found = {} THEN 404 ELSE 200
    IN  /\ ures = NoURes
        /\ ures' = URes("delete", userId, NoBody, status, "", 0)
        /\ users' = IF status = 200 THEN users \ found ELSE users
        /\ UNCHANGED maxId
        /\ UNCHANGED <<certVars, verVars, dbVars, readVars, docVars, raceVars>>

\* login with the password compared before the account's state is looked at.
login_PasswordFirst(email, password) ==
    LET found == FindByEmail(NormalizeEmail(email))
        user == CHOOSE a \in found : TRUE
        status == IF email = NoEmail \/ password = NoPassword THEN 400
                  ELSE IF found = {} THEN 401
                  ELSE IF ~bcryptCompare(password, user.passwordHash) THEN 401
                  ELSE IF ~user.isActive \/ user.status # "active" THEN 403
                  ELSE 200
    IN  /\ ures = NoURes
        /\ ures' = URes("login", 0, [NoBody EXCEPT !.email = email, !.password = password],
                        status, "", 0)
        /\ users' = IF status = 200
                      THEN (users \ found) \cup {[user EXCEPT !.lastLoginAt = TRUE]}
                      ELSE users
        /\ UNCHANGED maxId
        /\ UNCHANGED <<certVars, verVars, dbVars, readVars, docVars, raceVars>>

\* POST /auth/login: the account is looked up, its state is checked, then
\* the password; a login that passes sets lastLoginAt and saves.
login(email, password) ==
    LET found == FindByEmail(NormalizeEmail(email))
        user == CHOOSE a \in found : TRUE
        status == IF email = NoEmail \/ password = NoPassword THEN 400
                  ELSE IF found = {} THEN 401
                  ELSE IF ~user.isActive \/ user.status # "active" THEN 403
                  ELSE IF ~bcryptCompare(password, user.passwordHash) THEN 401
                  ELSE 200
    IN  /\ ures = NoURes
        /\ ures' = URes("login", 0, [NoBody EXCEPT !.email = email, !.password = password],
                        status, "", 0)
        /\ users' = IF status = 200
                      THEN (users \ found) \cup {[user EXCEPT !.lastLoginAt = TRUE]}
                      ELSE users
        /\ UNCHANGED maxId
        /\ UNCHANGED <<certVars, verVars, dbVars, readVars, docVars, raceVars>>

\* The answer is sent; the next account request can arrive.
UserAnswered ==
    /\ ures # NoURes
    /\ ures' = NoURes
    /\ UNCHANGED <<users, maxId>>
    /\ UNCHANGED <<certVars, verVars, dbVars, readVars, docVars, raceVars>>

----------------------------------------------------------------------------
(* utils/blockchain.ts called directly: the read operations getHash,        *)
(* verifyHashOnChain and verifyOnChain, one action per call.                *)

\* What a call leaves behind: the digest it was given and what
\* normalizeBytes32 made of it, whether the contract was reached and what it
\* said, and the configuration value whose absence made the call throw.
RRes(op, address, hash, normalized, called, exists, ok, error) ==
    [op |-> op, address |-> address, hash |-> hash, normalized |-> normalized,
     called |-> called, exists |-> exists, ok |-> ok, error |-> error]

NoRRes == RRes("none", "undefined", Undef, normalizeBytes32(Undef), FALSE, FALSE, FALSE, "")

\* normalizeAddress: a missing address is replaced by getSignerAddress(),
\* which is getSignerWallet().address; ethers.getAddress throws on text that
\* is no address.
normalizeAddress(c, address) ==
    IF address = "undefined" THEN getSignerWallet(c)
    ELSE IF address = "invalid" THEN Thrown(c)
    ELSE Got(c)

\* getHash, called with no address ("undefined"), an address, or text that
\* ethers.getAddress rejects: the read contract first, then the address, then the call.  The
\* read contract has built the provider, so the only value getSignerWallet
\* can still miss is PRIVATE_KEY.
getHash(address, rpcOk) ==
    /\ rres = NoRRes
    /\ LET rc == getReadContract(client)
           na == normalizeAddress(rc.c, address)
       IN  /\ client' = IF rc.ok THEN na.c ELSE rc.c
           /\ rres' = RRes("getHash", address, Undef, normalizeBytes32(Undef),
                           rc.ok /\ na.ok, FALSE, rc.ok /\ na.ok /\ rpcOk,
                           IF ~rc.ok
                             THEN IF ~env.CONTRACT_ADDRESS THEN "CONTRACT_ADDRESS" ELSE "RPC_URL"
                             ELSE IF ~na.ok
                                    THEN IF address = "undefined" THEN "PRIVATE_KEY" ELSE "address"
                                    ELSE IF ~rpcOk THEN "rpc" ELSE "")
    /\ UNCHANGED <<env, chain, txCount, mempool, req, verVars, dbVars, userVars, docVars, raceVars>>

\* A call of verifyHashOnChain: it never throws.
CallVerifyHashOnChain(hash, rpcOk) ==
    /\ rres = NoRRes
    /\ LET v == verifyHashOnChain(client, hash, rpcOk)
       IN  /\ client' = v.c
           /\ rres' = RRes("verifyHashOnChain", "undefined", hash, normalizeBytes32(hash),
                           v.called, v.exists, TRUE, "")
    /\ UNCHANGED <<env, chain, txCount, mempool, req, verVars, dbVars, userVars, docVars, raceVars>>

\* A call of verifyOnChain: the address argument is not read.
CallVerifyOnChain(hash, address, rpcOk) ==
    /\ rres = NoRRes
    /\ LET v == verifyOnChain(client, hash, rpcOk)
       IN  /\ client' = v.c
           /\ rres' = RRes("verifyOnChain", address, hash, normalizeBytes32(hash),
                           v.called, v.exists, TRUE, "")
    /\ UNCHANGED <<env, chain, txCount, mempool, req, verVars, dbVars, userVars, docVars, raceVars>>

\* The call has returned; the next one can be made.
ReadReturned ==
    /\ rres # NoRRes
    /\ rres' = NoRRes
    /\ UNCHANGED <<certVars, verVars, dbVars, userVars, docVars, raceVars>>

----------------------------------------------------------------------------
(* routes/certify.ts, step 7: the docType of the answer, derived from the   *)
(* name of the uploaded file.  A name is a sequence of characters.          *)

MaxNameLen == 4

\* File names made of a lower-case letter, an upper-case letter and the dot.
Filenames == UNION { [1..n -> {"a", "B", "."}] : n \in 0..MaxNameLen }

\* String.prototype.split("."): the pieces between the dots; a name without
\* a dot is its only piece.
RECURSIVE Split(_)
Split(s) ==
    IF s = <<>> THEN << <<>> >>
    ELSE LET rest == Split(Tail(s))
         IN  IF Head(s) = "." THEN << <<>> >> \o rest
             ELSE << <<Head(s)>> \o Head(rest) >> \o Tail(rest)

\* String.prototype.toUpperCase.
toUpperCase(s) == [i \in DOMAIN s |-> IF s[i] = "a" THEN "A" ELSE s[i]]

\* The literal "UNKNOWN", and a docType not computed yet.
Unknown == <<"UNKNOWN">>
Unset == <<"unset">>

\* file.originalname.split(".").pop()?.toUpperCase() || "UNKNOWN": the last
\* piece in upper case, and "UNKNOWN" when that is the empty string.
docType(originalname) ==
    LET pieces == Split(originalname)
        ext == toUpperCase(pieces[Len(pieces)])
    IN  IF ext = <<>> THEN Unknown ELSE ext

NoDoc == [originalname |-> <<>>, docType |-> Unset]

\* The handler derives the docType of the file it was sent.
CertifyDocType ==
    /\ doc.docType = Unset
    /\ doc' = [doc EXCEPT !.docType = docType(doc.originalname)]
    /\ UNCHANGED <<certVars, verVars, dbVars, userVars, readVars, raceVars>>

\* The answer is sent; the next file arrives.
CertifyNextFile(originalname) ==
    /\ doc.docType # Unset
    /\ doc' = [originalname |-> originalname, docType |-> Unset]
    /\ UNCHANGED <<certVars, verVars, dbVars, userVars, readVars, raceVars>>

----------------------------------------------------------------------------
(* routes/users.ts, createUser with requests that overlap: one action per    *)
(* await that reads or writes the collection.                                *)

MaxCreates == 2

\* A createUser request: where it stands, what it was sent, the id its
\* pre-save hook read, and its answer.
NoCreate == [pc |-> "idle", body |-> NoBody, id |-> 0, status |-> 0, error |-> ""]

\* The request arrives, its body is validated, and the lookup by email
\* answers from the collection as it is then.
CreateFindEmail(c, body) ==
    /\ creating[c].pc = "idle"
    /\ LET out == CreateOutcome(body, TRUE)
           q == [creating[c] EXCEPT !.body = body]
       IN  creating' = [creating EXCEPT ![c] =
              IF out.status = 400
                THEN [q EXCEPT !.pc = "done", !.status = 400, !.error = out.error]
              ELSE IF FindByEmail(NormalizeEmail(body.email)) # {}
                THEN [q EXCEPT !.pc = "done", !.status = 409, !.error = "email"]
              ELSE [q EXCEPT !.pc = "findUsername"]]
    /\ UNCHANGED <<certVars, verVars, dbVars, userVars, readVars, docVars>>

\* The lookup by username answers; the password is hashed and save is called.
CreateFindUsername(c) ==
    /\ creating[c].pc = "findUsername"
    /\ creating' = [creating EXCEPT ![c] =
          IF \E a \in users : a.username = TrimUsername(creating[c].body.username)
            THEN [@ EXCEPT !.pc = "done", !.status = 409, !.error = "username"]
            ELSE [@ EXCEPT !.pc = "nextId"]]
    /\ UNCHANGED <<certVars, verVars, dbVars, userVars, readVars, docVars>>

\* save validates the document, then the pre-save hook runs: getNextId
\* answers from the collection as it is then.
CreateNextId(c) ==
    /\ creating[c].pc = "nextId"
    /\ creating' = [creating EXCEPT ![c] =
          IF ~Validates([username |-> TrimUsername(creating[c].body.username)])
            THEN [@ EXCEPT !.pc = "done", !.status = 500, !.error = "save"]
            ELSE [@ EXCEPT !.pc = "insert", !.id = getNextId]]
    /\ UNCHANGED <<certVars, verVars, dbVars, userVars, readVars, docVars>>

\* The insert reaches the collection: the unique indexes refuse it with
\* E11000, answered 409, or the account is stored and the answer is 201.
CreateInsert(c) ==
    /\ creating[c].pc = "insert"
    /\ LET b == creating[c].body
           account == Account(creating[c].id, NormalizeEmail(b.email),
                              TrimUsername(b.username), bcryptHash(b.password),
                              IF b.role # "" THEN b.role ELSE "verifier",
                              IF b.status # "" THEN b.status ELSE "active",
                              IF b.isActive # "undefined" THEN b.isActive = "true" ELSE TRUE,
                              FALSE)
       IN  IF DuplicateKey(account, users)
             THEN /\ creating' = [creating EXCEPT ![c] =
                                    [@ EXCEPT !.pc = "done", !.status = 409, !.error = "E11000"]]
                  /\ UNCHANGED <<users, maxId>>
             ELSE /\ creating' = [creating EXCEPT ![c] = [@ EXCEPT !.pc = "done", !.status = 201]]
                  /\ users' = users \cup {account}
                  /\ maxId' = IF account.id > maxId THEN account.id ELSE maxId
    /\ UNCHANGED <<certVars, verVars, dbVars, ures, readVars, docVars>>

----------------------------------------------------------------------------
(* Specifications. *)

LibInit ==
    /\ DbInit
    /\ UserInit
    /\ rres = NoRRes
    /\ doc = NoDoc
    /\ creating = [c \in 1..MaxCreates |-> NoCreate]

StoreInit == [exists |-> FALSE, rows |-> [h \in Digests |-> NoRecord]]

\* A fresh deployment: nothing on chain, no store file, empty storage.
Init ==
    /\ CertInit
    /\ store = StoreInit
    /\ r2 = [k \in R2Keys |-> "absent"]
    /\ vres = NoVRes
    /\ LibInit

\* The answer is sent; the next verify request can arrive.
VerifyAnswered ==
    /\ vres # NoVRes
    /\ vres' = NoVRes
    /\ UNCHANGED <<env, client, chain, txCount, mempool, req, store, r2, libVars>>

GetVerify ==
    /\ vres = NoVRes
    /\ \E hashQ \in HashParams, s3 \in {"ok", "existsFails", "downloadFails"}, rpcOk \in BOOLEAN :
          \/ \E p \in Payloads : verifyCertificate(hashQ, p, s3, "fail", rpcOk)
          \/ \E p \in UrlPayloads, fetched \in Buffers \cup {"fail"} :
                verifyCertificate(hashQ, p, s3, fetched, rpcOk)
    /\ UNCHANGED <<env, chain, txCount, mempool, req, r2, libVars>>

GetVerifyDb ==
    /\ vres = NoVRes
    /\ \E hashQ \in HashParams, p \in Payloads, rpcOk \in BOOLEAN :
            verifyCertificateDb(hashQ, p, rpcOk)
    /\ UNCHANGED <<env, chain, txCount, mempool, req, r2, libVars>>

GetVerifyMinimal ==
    /\ vres = NoVRes
    /\ \E hashQ \in HashParams, p \in Payloads, rpcOk \in BOOLEAN :
            verifyCertificateMinimal(hashQ, p, rpcOk)
    /\ UNCHANGED <<env, chain, txCount, mempool, req, r2, libVars>>

PostVerify ==
    /\ vres = NoVRes
    /\ \E file \in Buffers \cup {"none"}, hash \in HashParams : verifyByFile(file, hash)
    /\ UNCHANGED <<env, chain, txCount, mempool, req, r2, libVars>>

PostVerifyMinimal ==
    /\ vres = NoVRes
    /\ \E file \in Buffers \cup {"none"}, hash \in HashParams, rpcOk \in BOOLEAN :
            verifyByFileMinimal(file, hash, rpcOk)
    /\ UNCHANGED <<env, chain, txCount, mempool, req, r2, libVars>>

\* Concurrent certify requests against the chain.
Next ==
    \/ \E r \in Reqs, file \in Buffers \cup {"none"} : CertifyStart(r, file)
    \/ \E r \in Reqs, rpcOk \in BOOLEAN : CertifyCheck(r, rpcOk)
    \/ \E r \in Reqs, aiOk \in BOOLEAN : CertifyAI(r, aiOk)
    \/ \E r \in Reqs, error \in RpcErrors \cup {NoErr} : StorePopulate(r, error)
    \/ \E r \in Reqs, error \in RpcErrors \cup {NoErr} : StoreNonce(r, error)
    \/ \E r \in Reqs, error \in RpcErrors \cup {NoErr} : StoreSend(r, error)
    \/ \E r \in Reqs, ok \in BOOLEAN : Mine(r, ok)
    \/ \E r \in Reqs : CertifyConfirm(r)

Spec == Init /\ [][Next]_vars

\* One certify request and the verify requests made before, during and after it.
NextFlow ==
    \/ \E file \in Buffers \cup {"none"} : CertifyStart(1, file)
    \/ \E rpcOk \in BOOLEAN : CertifyCheck(1, rpcOk)
    \/ \E aiOk \in BOOLEAN : CertifyAI(1, aiOk)
    \/ \E error \in RpcErrors \cup {NoErr} : StorePopulate(1, error)
    \/ \E error \in RpcErrors \cup {NoErr} : StoreNonce(1, error)
    \/ \E error \in RpcErrors \cup {NoErr} : StoreSend(1, error)
    \/ \E ok \in BOOLEAN : Mine(1, ok)
    \/ CertifyConfirm(1)
    \/ GetVerify
    \/ GetVerifyDb
    \/ GetVerifyMinimal
    \/ PostVerify
    \/ PostVerifyMinimal
    \/ VerifyAnswered

SpecFlow == Init /\ [][NextFlow]_vars

\* What the server can find when it starts: digests already on chain, rows
\* already in the store file, objects already in storage.
StoredCerts(h) ==
    { NoRecord } \cup
    { Cert(h, "k1", 1, s) :
        s \in IF h = generateSHA256("b1") THEN {NoSig, Sig("server", h), Garbage}
                                           ELSE {Sig("server", h)} }

InitVerify ==
    /\ env \in { e \in Envs : e.PRIVATE_KEY /\ e.SERVER_PRIVATE_KEY }
    /\ client = ClientInit
    /\ chain \in SUBSET { Bytes32(h) : h \in Digests }
    /\ txCount = 0
    /\ mempool = [r \in Reqs |-> "none"]
    /\ req = [r \in Reqs |-> NewReq]
    /\ \E rows \in [Digests -> UNION { StoredCerts(h) : h \in Digests }] :
          /\ \A h \in Digests : rows[h] \in StoredCerts(h)
          /\ store = [exists |-> \E h \in Digests : rows[h] # NoRecord, rows |-> rows]
    /\ r2 \in [R2Keys -> Buffers \cup {"absent"}]
    /\ vres = NoVRes
    /\ LibInit

NextVerify ==
    \/ GetVerify
    \/ GetVerifyDb
    \/ GetVerifyMinimal
    \/ PostVerify
    \/ PostVerifyMinimal
    \/ VerifyAnswered

SpecVerify == InitVerify /\ [][NextVerify]_vars

\* A fresh deployment whose configuration is complete.
InitStore == Init /\ env = EnvAll

\* The store used by concurrent callers.
NextStore ==
    \/ \E c \in Calls, record \in SaveRecords : saveCertificate(c, record)
    \/ \E c \in Calls, hash \in Digests : getCertificateCall(c, hash)
    \/ \E c \in Calls : DbAccess(c)
    \/ \E c \in Calls : DbCreate(c)
    \/ \E c \in Calls : DbRead(c)
    \/ \E c \in Calls : DbWrite(c)

SpecStore == InitStore /\ [][NextStore]_vars

\* The store used by one caller at a time.
NextStoreSeq ==
    \/ \E c \in Calls, record \in SaveRecords : SaveAlone(c, record)
    \/ \E c \in Calls, hash \in Digests : GetAlone(c, hash)
    \/ \E c \in Calls : DbAccess(c)
    \/ \E c \in Calls : DbCreate(c)
    \/ \E c \in Calls : DbRead(c)
    \/ \E c \in Calls : DbWrite(c)

SpecStoreSeq == InitStore /\ [][NextStoreSeq]_vars

\* What the account requests carry: two addresses, one of them also in upper
\* case, with white space, and without the shape of an address; two
\* usernames, one of them also with white space, and a blank one; a password
\* that is long enough, another one, and one that is too short.
GoodPassword == Password("secret1", 7)

ShortPassword == Password("abc", 3)

BaseBodies ==
    { Body(Email(l, up, FALSE, TRUE), Username(u, ws), GoodPassword, TRUE, "", "", "undefined") :
        l \in {"a", "b"}, up \in BOOLEAN, u \in {"u1", "u2"}, ws \in BOOLEAN }

\* A body with one field changed or left out.
Variants(b) ==
    { b,
      [b EXCEPT !.email = NoEmail],
      [b EXCEPT !.email = [@ EXCEPT !.ws = TRUE]],
      [b EXCEPT !.email = [@ EXCEPT !.shaped = FALSE]],
      [b EXCEPT !.username = Username("", TRUE)],
      [b EXCEPT !.password = ShortPassword],
      [b EXCEPT !.named = FALSE],
      [b EXCEPT !.role = "admin"],
      [b EXCEPT !.role = "bogus"],
      [b EXCEPT !.status = "suspended"],
      [b EXCEPT !.status = "bogus"],
      [b EXCEPT !.isActive = "false"] }

CreateBodies ==
    { b \in BaseBodies : ~(b.email.upper /\ b.username.ws) }
    \cup UNION { Variants(b) : b \in { x \in BaseBodies : ~x.email.upper /\ ~x.username.ws
                                                          /\ (x.email.local = "a") = (x.username.text = "u1") } }

\* Update bodies send one field, or two of which the second is refused or
\* accepted after the first was set.
UpdateBodies ==
    { NoBody }
    \cup { [NoBody EXCEPT !.email = Email("b", FALSE, FALSE, TRUE), !.role = r] :
             r \in {"admin", "bogus"} }
    \cup { [NoBody EXCEPT !.email = Email("b", FALSE, FALSE, TRUE), !.password = ShortPassword],
           [NoBody EXCEPT !.email = Email("b", FALSE, FALSE, TRUE),
                          !.username = Username("u1", FALSE)],
           [NoBody EXCEPT !.username = Username("u2", FALSE), !.status = "bogus"] }
    \cup { [NoBody EXCEPT !.email = Email(l, up, FALSE, sh)] :
             l \in {"a", "b"}, up \in BOOLEAN, sh \in BOOLEAN }
    \cup { [NoBody EXCEPT !.username = u] :
             u \in {Username("u1", FALSE), Username("u2", TRUE), Username("", TRUE)} }
    \cup { [NoBody EXCEPT !.password = pw] : pw \in {GoodPassword, ShortPassword} }
    \cup { [NoBody EXCEPT !.role = r] : r \in {"admin", "bogus"} }
    \cup { [NoBody EXCEPT !.status = st] : st \in {"active", "suspended", "bogus"} }
    \cup { [NoBody EXCEPT !.isActive = ia] : ia \in {"true", "false"} }

\* Account requests, one at a time.
NextUsers ==
    \/ \E body \in CreateBodies : createUser(body)
    \/ \E body \in CreateBodies : register(body)
    \/ \E userId \in 0..MaxId, body \in UpdateBodies : updateUser(userId, body)
    \/ \E userId \in 0..MaxId, body \in UpdateBodies : patchUser(userId, body)
    \/ \E userId \in 0..MaxId : deleteUser(userId)
    \/ \E email \in { NoEmail, Email("a", FALSE, FALSE, TRUE), Email("a", TRUE, TRUE, TRUE),
                      Email("b", FALSE, FALSE, TRUE) },
          password \in { NoPassword, GoodPassword, Password("secret2", 7) } :
            login(email, password)
    \/ UserAnswered

SpecUsers == InitStore /\ [][NextUsers]_vars

\* The digests a caller of the chain client can pass: nothing, the empty
\* string, a SHA-256 digest bare, padded with white space and with its 0x
\* prefix, 64 characters that are not hexadecimal with and without the
\* prefix, and text of another length.
ReadHashes ==
    { Undef, EmptyStr,
      generateSHA256("b1"),
      Str(TRUE, FALSE, HexLen, TRUE, "b1"),
      Str(FALSE, TRUE, HexLen, TRUE, "b1"),
      Str(FALSE, FALSE, HexLen, FALSE, "zz"),
      Str(FALSE, TRUE, HexLen, FALSE, "zz"),
      Str(FALSE, FALSE, 10, TRUE, "b1"),
      Str(FALSE, TRUE, 10, TRUE, "b1") }

\* The chain client of a process that has made no call yet, in front of a
\* contract holding any of the digests.
InitReads ==
    /\ env \in Envs
    /\ client = ClientInit
    /\ chain \in SUBSET { Bytes32(h) : h \in Digests }
    /\ txCount = 0
    /\ mempool = [r \in Reqs |-> "none"]
    /\ req = [r \in Reqs |-> NewReq]
    /\ store = StoreInit
    /\ r2 = [k \in R2Keys |-> "absent"]
    /\ vres = NoVRes
    /\ LibInit

\* Read operations only, one call at a time.
NextReads ==
    \/ \E address \in {"undefined", "valid", "invalid"}, rpcOk \in BOOLEAN : getHash(address, rpcOk)
    \/ \E hash \in ReadHashes, rpcOk \in BOOLEAN : CallVerifyHashOnChain(hash, rpcOk)
    \/ \E hash \in ReadHashes, address \in {"undefined", "valid", "invalid"}, rpcOk \in BOOLEAN :
          CallVerifyOnChain(hash, address, rpcOk)
    \/ ReadReturned

SpecReads == InitReads /\ [][NextReads]_vars

\* Overlapping createUser requests with well-formed bodies: two addresses,
\* one of them also in upper case, and two usernames.
NextCreates ==
    \/ \E c \in 1..MaxCreates, body \in { b \in BaseBodies : ~b.username.ws } :
          CreateFindEmail(c, body)
    \/ \E c \in 1..MaxCreates : CreateFindUsername(c)
    \/ \E c \in 1..MaxCreates : CreateNextId(c)
    \/ \E c \in 1..MaxCreates : CreateInsert(c)

SpecCreates == InitStore /\ [][NextCreates]_vars

\* Uploads of files of any name, one at a time.
NextNames ==
    \/ CertifyDocType
    \/ \E originalname \in Filenames : CertifyNextFile(originalname)

SpecNames == InitStore /\ [][NextNames]_vars

----------------------------------------------------------------------------
(* Claims about POST /certify, checked under Spec. *)

\* C1: once a certify request for some bytes has been answered 200, every
\* certify request for the same bytes that arrives later is answered 409
\* with the same digest, and never calls storeHash.
C1_LaterRequestAnswered409 ==
    \A r \in Reqs :
        req[r].prior =>
            /\ req[r].storeCalls = 0
            /\ req[r].pc = "done" =>
                 req[r].resp.status = 409 /\ req[r].resp.hash = req[r].hash

\* C2: a certify request answered 409 at the duplicate check, or 502 at the
\* AI analysis, has called neither storeHash nor signHash, has sent no
\* transaction, and has left no certificate record.
C2_EarlyExitHasNoEffect ==
    \A r \in Reqs :
        LET q == req[r]
        IN  /\ q.pc = "done"
            /\ \/ q.resp.status = 409
               \/ q.resp.status = 502 /\ q.resp.error = "Analisi AI fallita"
            => /\ q.storeCalls = 0
               /\ q.sendCalls = 0
               /\ q.signCalls = 0
               /\ mempool[r] = "none"
               /\ q.resp.signature = NoSig
               /\ getCertificateByHash(store, q.hash) = NoRecord

\* A request is answered 409 for a digest that is on chain.
C2_Witness ==
    \E r \in Reqs :
        /\ req[r].pc = "done"
        /\ req[r].resp.status = 409
        /\ Bytes32(req[r].hash) \in chain

\* C3: a certify request calls storeHash at most once and sends at most one
\* transaction; when storeHash throws, the request is answered 502 with the
\* error's code, short message and info and a message that is never empty,
\* signHash is not called, and storeHash is not called again.
C3_WriteFailureAnswered502 ==
    \A r \in Reqs :
        LET q == req[r]
            d == q.resp.details
        IN  /\ q.storeCalls <= 1
            /\ q.sendCalls <= 1
            /\ q.thrown # NoErr =>
                 /\ q.pc = "done"
                 /\ q.resp.status = 502
                 /\ q.resp.error = "Scrittura on-chain fallita"
                 /\ d.message \notin {"", "undefined"}
                 /\ q.thrown.obj =>
                      /\ d.code = q.thrown.code
                      /\ d.shortMessage = q.thrown.shortMessage
                      /\ d.info = q.thrown.info
                      /\ q.thrown.message \notin {"", "undefined"} =>
                           d.message = q.thrown.message
                 /\ ~q.thrown.obj => d.message = UnknownTxError
                 /\ q.storeCalls = 1
                 /\ q.signCalls = 0
                 /\ q.resp.signature = NoSig

\* storeHash threw an error whose message is empty, after the transaction was sent.
C3_Witness ==
    \E r \in Reqs :
        /\ req[r].pc = "done"
        /\ req[r].thrown # NoErr
        /\ req[r].thrown.message = ""
        /\ req[r].sendCalls = 1

----------------------------------------------------------------------------
(* Claims about GET /verify and POST /verify.  SpecVerify starts from any  *)
(* chain, store and storage; SpecFlow from a fresh deployment with one      *)
(* certify request.                                                          *)

GetKinds == {"strict", "db", "minimal"}

\* C4: every GET /verify request that resolves a target hash queries the
\* chain for it before it answers, whether a record exists or not.
C4_ChainAlwaysQueried ==
    vres.kind \in GetKinds /\ vres.status = 200 => vres.queried

\* C5: in GET /verify, a missing record is reported as dbExists=false and
\* nothing more: the chain and signature checks are still evaluated, and the
\* verdict is true when they pass.
C5_MissingRecordInformational ==
    /\ vres.kind \in {"strict", "db"}
    /\ vres.status = 200
    /\ vres.cert = NoRecord
    => /\ vres.checks.dbExists = "false"
       /\ vres.checks.onChain # "null"
       /\ vres.checks.signature # "null"
       /\ /\ vres.checks.onChain = "true"
          /\ ~SigTruthy(vres.p.sig) \/ vres.checks.signature = "true"
          => vres.verified

\* C6: in the store-less variant, verified is exactly: on chain, and either
\* the payload carries no signature or the server's public key is configured
\* and the signature is the server's over the target hash.
C6_MinimalVerdict ==
    vres.kind = "minimal" /\ vres.status = 200 =>
        vres.verified =
            /\ vres.checks.onChain = "true"
            /\ \/ ~SigTruthy(vres.p.sig)
               \/ env.SERVER_PUBLIC_KEY /\ vres.p.sig = Sig("server", vres.target)

\* The payload's signature is checked and the answer is verified:true.
C6_Witness ==
    /\ vres.kind = "minimal"
    /\ vres.verified
    /\ SigTruthy(vres.p.sig)

AllChecksTrue(checks) ==
    /\ checks.dbExists = "true"
    /\ checks.r2Access = "true"
    /\ checks.hashMatch = "true"
    /\ checks.onChain = "true"
    /\ checks.signature = "true"

\* C7: in the strict variant, verified is true exactly when dbExists,
\* r2Access, hashMatch, onChain and signature are all true; with no signature
\* in the payload and none in the record, signature is not true and verified
\* is false.
C7_StrictVerdict ==
    vres.kind = "strict" /\ vres.status = 200 =>
        /\ vres.verified = AllChecksTrue(vres.checks)
        /\ ~SigTruthy(vres.p.sig) /\ ~SigTruthy(vres.cert.signature) =>
             vres.checks.signature # "true" /\ ~vres.verified

\* The strict variant answers verified:true.
C7_Witness == vres.kind = "strict" /\ vres.verified

\* C8: GET /verify?hash=h for a hash that was never written on chain is
\* answered verified:false with checks.onChain false.
C8_NeverCertifiedIsOnChainFalse ==
    /\ vres.kind \in GetKinds
    /\ vres.p = NoP
    /\ Truthy(vres.hashQ)
    /\ ~vres.written
    => /\ vres.status = 200
       /\ ~vres.verified
       /\ vres.checks.onChain = "false"

\* C9: GET /verify answers with a missing-hash error only when neither p nor
\* hash yields a hash; when either of them does, it goes on with a hash.
C9_MissingHashOnlyWhenNeither ==
    vres.kind \in GetKinds /\ vres.status # 0 =>
        LET fromPayload == vres.p.kind = "obj" /\ Truthy(vres.p.hash)
            fromQuery == Truthy(vres.hashQ)
        IN  /\ vres.error \in {MissingParam, HashNotFound} => ~fromPayload /\ ~fromQuery
            /\ fromPayload \/ fromQuery => vres.status = 200 /\ Truthy(vres.target)

\* C10: after a certify request for some bytes was answered 200, POST /verify
\* with a file of exactly these bytes is answered match:true.
C10_CertifiedBytesMatch ==
    vres.kind = "file" /\ vres.certified => vres.match = "true"

PostKinds == {"file", "fileMinimal"}

\* C11: after a certify request for some bytes was answered 200, POST /verify
\* with a file of other bytes that were never certified, with or without a
\* hash field, is answered with a false match and verified:false.
C11_AlteredBytesNoMatch ==
    /\ vres.kind \in PostKinds
    /\ vres.file # "none"
    /\ vres.otherCertified
    /\ ~vres.certified
    => /\ ~vres.verified
       /\ IF vres.kind = "file" THEN vres.match = "false" ELSE vres.fileMatch = "false"

\* C12: the QR payload of a certify request answered 200, sent back as p to
\* GET /verify, resolves the certified hash and is answered verified:true.
C12_QrPayloadRoundTrips ==
    vres.kind = "strict" /\ vres.roundTrip =>
        /\ vres.status = 200
        /\ vres.target = vres.p.hash
        /\ vres.verified

----------------------------------------------------------------------------
(* Claims about the certificate store, checked under SpecStoreSeq and       *)
(* SpecStore.                                                                *)

\* C13: with saveCertificate calls made one after the other, every row of the
\* store sits under its own hash (one record per hash), and between calls
\* getCertificateByHash(h) returns the record of the latest saveCertificate
\* for h, or null when there was none.
C13_LatestRecordPerHash ==
    \A h \in Digests :
        /\ store.rows[h] # NoRecord => store.rows[h].hash = h
        /\ NoneRunning => getCertificateByHash(store, h) = lastSaved[h]

\* A record was saved for each digest, and one of them was saved over an
\* earlier record for the same hash.
C13_Witness ==
    /\ NoneRunning
    /\ \A h \in Digests : lastSaved[h] # NoRecord
    /\ \E h \in Digests : saveCount[h] = 2 /\ lastSaved[h].txHash = 1

\* C14: once a saveCertificate call for h has completed, getCertificateByHash(h)
\* returns a record for h in every later state, whatever other calls run
\* concurrently.
C14_SavedRecordStays ==
    \A h \in Digests :
        lastSaved[h] # NoRecord => getCertificateByHash(store, h) # NoRecord

----------------------------------------------------------------------------
(* Claims about the account store, checked under SpecUsers.  The claims     *)
(* speak of the strings as they are sent: an address is case-folded and     *)
(* trimmed by dropping its upper and ws marks, a username is trimmed by     *)
(* dropping its ws mark.                                                     *)

FoldedEmail(email) == [email EXCEPT !.upper = FALSE, !.ws = FALSE]

TrimmedUsername(username) == [username EXCEPT !.ws = FALSE]

\* C15: with requests made one after the other, no two stored accounts have
\* the same case-folded, trimmed email, and no two have the same trimmed
\* username.
C15_EmailAndUsernameUnique ==
    \A a, b \in users :
        a # b => /\ FoldedEmail(a.email) # FoldedEmail(b.email)
                 /\ TrimmedUsername(a.username) # TrimmedUsername(b.username)

\* Two accounts are stored and an update that would give one of them the
\* other's email or username has been refused.
C15_Witness ==
    /\ Cardinality(users) = 2
    /\ ures.op \in {"update", "patch"}
    /\ ures.status = 409

\* C16: every newly created account receives an id greater than every id
\* given before, also after deletions.
C16_IdsNeverReused ==
    ures.op \in {"create", "register"} /\ ures.status = 201 =>
        ures.newId > ures.prevMaxId

CreationOps == {"create", "register"}

Malformed(email) == ~email.shaped \/ email.ws

AlreadyStored(body, accounts) ==
    \E a \in accounts : \/ a.email = FoldedEmail(body.email)
                        \/ a.username = TrimmedUsername(body.username)

\* C17 as stated: a creation request is answered 400 when its email is
\* malformed, its password is shorter than 6, its role or its status is
\* outside the enumeration, and 409 when its email or username is already
\* stored; a rejected request leaves the stored accounts unchanged.
C17_CreationRejects ==
    ures.op \in CreationOps =>
        /\ \/ Malformed(ures.body.email)
           \/ ures.body.password.len < 6
           \/ ures.body.role \notin allowedRoles \cup {""}
           \/ ures.body.status \notin allowedStatuses \cup {""}
           => ures.status = 400
        /\ AlreadyStored(ures.body, ures.before) => ures.status \in {400, 409}
        /\ ures.status \in {400, 409} => users = ures.before

\* What both creation handlers refuse with 400.
RefusedAsInvalid(op, body) ==
    \/ body.email = NoEmail \/ body.username = NoUsername
    \/ body.password = NoPassword \/ ~body.named
    \/ Malformed(body.email)
    \/ body.password.len < 6
    \/ body.role \notin allowedRoles \cup {""}
    \/ op = "create" /\ body.status \notin allowedStatuses \cup {""}

\* C17 amended: POST /users and POST /auth/register answer 400 when a
\* required field is missing, the email is malformed, the password is
\* shorter than 6 or the role is outside the enumeration; POST /users also
\* when the status is outside it, while POST /auth/register does not read
\* status and stores "active".  A request that passes is answered 409 when its
\* email or username is already stored.  Every request not answered 201
\* leaves the stored accounts unchanged.
C17_CreationRejectsInOrder ==
    ures.op \in CreationOps =>
        /\ RefusedAsInvalid(ures.op, ures.body) => ures.status = 400
        /\ ~RefusedAsInvalid(ures.op, ures.body) /\ AlreadyStored(ures.body, ures.before)
             => ures.status = 409
        /\ ures.status # 201 => users = ures.before
        /\ ures.op = "register" /\ ures.status = 201 =>
             \E a \in users : a.id = ures.newId /\ a.status = "active" /\ a.isActive
                              /\ users = ures.before \cup {a}

\* A well-formed creation request is refused with 409 because of what is stored.
C17_Witness ==
    /\ ures.op \in CreationOps
    /\ ures.status = 409
    /\ ~RefusedAsInvalid(ures.op, ures.body)
    /\ users # {}

\* The account a login request names, among those stored when it arrived.
Named(email, accounts) == { a \in accounts : a.email = FoldedEmail(email) }

Inactive(a) == ~a.isActive \/ a.status # "active"

LoginOfAccount ==
    /\ ures.op = "login"
    /\ ures.body.email # NoEmail
    /\ ures.body.password # NoPassword
    /\ Named(ures.body.email, ures.before) # {}

----------------------------------------------------------------------------
(* Claims about the chain client called directly, checked under SpecReads,  *)
(* whose calls are read operations only.                                     *)

\* C19: after any sequence of read operations the signer wallet and the
\* write contract are still unset, and no call has failed for want of
\* PRIVATE_KEY.
C19_ReadsLeaveSignerAlone ==
    /\ ~client.signerWallet
    /\ ~client.writeContract
    /\ rres.error # "PRIVATE_KEY"

\* After trimming: 64 hexadecimal characters, with or without the 0x prefix.
WellFormedDigest(hash) == Trim(hash).n = HexLen /\ Trim(hash).hex

\* C20: normalizeBytes32 accepts a digest exactly when it is well formed,
\* hands 0x plus its 64 characters to the contract, and the contract is not
\* called for any other input.
C20_DigestAcceptedIffWellFormed ==
    rres.op \in {"verifyHashOnChain", "verifyOnChain"} =>
        /\ rres.normalized.ok <=> WellFormedDigest(rres.hash)
        /\ rres.normalized.ok => rres.normalized.val = Bytes32(rres.hash)
        /\ ~WellFormedDigest(rres.hash) => ~rres.called

----------------------------------------------------------------------------
(* Claims about the docType of the certify answer, checked under SpecNames. *)

\* The text after the last dot of a name that has a dot, else the empty text.
Extension(originalname) ==
    IF \E i \in DOMAIN originalname : originalname[i] = "."
      THEN LET last == CHOOSE i \in DOMAIN originalname :
                          /\ originalname[i] = "."
                          /\ \A j \in DOMAIN originalname : originalname[j] = "." => j <= i
           IN  SubSeq(originalname, last + 1, Len(originalname))
      ELSE <<>>

\* C21: docType is the extension in upper case when the name has one, and
\* UNKNOWN for every name without an extension, a name without a dot
\* included.
C21_DocTypeIsExtension ==
    doc.docType # Unset =>
        doc.docType = IF Extension(doc.originalname) # <<>>
                        THEN toUpperCase(Extension(doc.originalname))
                        ELSE Unknown

----------------------------------------------------------------------------
(* Claims about concurrent POST /certify requests, checked under Spec.      *)

\* C22: the duplicate check looks at the chain and at nothing else, so a
\* request is answered 409 only for a digest that is on chain; requests in
\* flight for the same bytes do not hold one another back.
C22_DuplicateCheckReadsChainOnly ==
    \A r \in Reqs : req[r].resp.status = 409 => Bytes32(req[r].hash) \in chain

\* Two requests for the same bytes have both passed the check and both
\* called sendTransaction while nothing is on chain yet.
C22_Witness ==
    \E first, second \in Reqs :
        /\ first # second
        /\ req[first].file # "none"
        /\ req[first].hash = req[second].hash
        /\ req[first].sendCalls >= 1 /\ req[second].sendCalls >= 1
        /\ req[first].resp.status # 409 /\ req[second].resp.status # 409
        /\ chain = {}

\* C23: the nonce a storeHash call sends is the pending transaction count as
\* it stands when the call reads it; nothing reserves it, so calls that read
\* before either has sent carry the same nonce.
C23_NonceIsPendingCountAtRead ==
    [][\A r \in Reqs :
          (req[r].pc = "nonce" /\ req'[r].pc = "send") => req'[r].nonce = txCount]_vars

\* Two calls have read the same pending count and both called
\* sendTransaction with it.
C23_Witness ==
    \E first, second \in Reqs :
        /\ first # second
        /\ req[first].sendCalls >= 1 /\ req[second].sendCalls >= 1
        /\ req[first].nonce = req[second].nonce
        /\ req[first].nonce >= 0
        /\ mempool[first] = "none" /\ mempool[second] = "none"
        /\ req[first].pc = "send" /\ req[second].pc = "send"

\* C24: a storeHash execution goes through its steps in order: the digest is
\* normalised and the transaction populated, then the nonce is read, then the
\* transaction is sent, then the receipt is awaited.  A transaction is sent
\* only by a call that has read a nonce, and the call returns (the handler
\* goes on to sign) only after the wait has ended with a mined transaction.
C24_StoreHashOrder ==
    [][\A r \in Reqs :
          /\ req'[r].pc # req[r].pc =>
                \/ req'[r].pc = "done"
                \/ <<req[r].pc, req'[r].pc>> \in
                      { <<"idle", "check">>, <<"check", "ai">>, <<"ai", "populate">>,
                        <<"populate", "nonce">>, <<"nonce", "send">>, <<"send", "wait">> }
          /\ req'[r].storeCalls > req[r].storeCalls /\ req'[r].pc # "done" =>
                normalizeBytes32(req[r].hash).ok
          /\ mempool'[r] # "none" /\ mempool[r] = "none" =>
                /\ req[r].pc = "send"
                /\ req[r].sendCalls = 1
                /\ req[r].nonce >= 0
          /\ req'[r].signCalls > req[r].signCalls =>
                /\ req[r].pc = "wait"
                /\ mempool[r] = "mined"]_vars

\* A storeHash call has gone through all its steps and the request was
\* answered with its transaction.
C24_Witness ==
    \E r \in Reqs :
        /\ req[r].resp.status = 200
        /\ req[r].resp.txHash = r
        /\ req[r].nonce >= 0
        /\ mempool[r] = "mined"

\* C27: a request whose transaction was mined is answered 200 with that
\* transaction, and no request answered with an error status has written
\* its digest on chain.
C27_ChainWriteAnswered200 ==
    \A r \in Reqs :
        /\ req[r].pc = "done" /\ mempool[r] = "mined" =>
              req[r].resp.status = 200 /\ req[r].resp.txHash = r
        /\ req[r].resp.status >= 400 => mempool[r] # "mined"

\* C28: storeHash is called for a digest only by a request whose duplicate
\* check reached the contract and was answered "not stored"; a request whose
\* existence read failed does not go on to storeHash.  A contract call that
\* completed has built the read contract, which the client then keeps.
C28_WriteOnlyAfterCompletedRead ==
    \A r \in Reqs : req[r].storeCalls >= 1 => client.readContract

----------------------------------------------------------------------------
(* A claim about the strict GET /verify, checked under SpecVerify.           *)

\* C30: hashMatch is true only if the object stored under the record's
\* fileKey has the target hash as its digest; what a presignedUrl of the
\* payload delivers does not make it true.
C30_HashMatchFromStoredObject ==
    vres.kind = "strict" /\ vres.checks.hashMatch = "true" =>
        /\ ObjectAt(vres.cert.fileKey) # "absent"
        /\ generateSHA256(ObjectAt(vres.cert.fileKey)) = vres.target

----------------------------------------------------------------------------
(* A claim about PUT and PATCH /users/:id, checked under SpecUsers.         *)

\* C26: an update answered 400, 404 or 409 leaves the stored accounts as
\* they were, whatever was set on the loaded document before the refusal;
\* an update answered 200 changes the account it names, and of it only the
\* fields its body carries.
C26_UpdateFrame ==
    ures.op \in {"update", "patch"} =>
        /\ ures.status \in {400, 404, 409} => users = ures.before
        /\ ures.status = 200 =>
              \E old \in ures.before, new \in users :
                 /\ old.id = ures.id /\ new.id = ures.id
                 /\ users \ {new} = ures.before \ {old}
                 /\ new.lastLoginAt = old.lastLoginAt
                 /\ ures.body.email = NoEmail => new.email = old.email
                 /\ ures.body.username = NoUsername => new.username = old.username
                 /\ ures.body.password = NoPassword => new.passwordHash = old.passwordHash
                 /\ ures.body.role = "" => new.role = old.role
                 /\ ures.body.status = "" => new.status = old.status
                 /\ ures.body.isActive = "undefined" => new.isActive = old.isActive

\* An update was refused for its role after its email, which is valid, free
\* and not the stored one, had been set on the loaded document.
C26_Witness ==
    /\ ures.op \in {"update", "patch"}
    /\ ures.status = 400
    /\ ures.error = "role"
    /\ ures.body.email # NoEmail
    /\ \E a \in users : a.id = ures.id /\ a.email # NormalizeEmail(ures.body.email)

----------------------------------------------------------------------------
(* Claims about overlapping createUser requests, checked under SpecCreates.  *)

\* The request has passed both lookups of the uniqueness check.
PassedLookups(c) ==
    \/ creating[c].pc \in {"nextId", "insert"}
    \/ creating[c].status = 201
    \/ creating[c].error \in {"E11000", "save"}

\* Two requests carry the same address or the same username.
SameIdentity(c, d) ==
    \/ NormalizeEmail(creating[c].body.email) = NormalizeEmail(creating[d].body.email)
    \/ TrimUsername(creating[c].body.username) = TrimUsername(creating[d].body.username)

\* C25, as stated: two overlapping requests with the same email or username
\* that both passed the lookups are both answered 201.
C25_RaceAdmitsDuplicates ==
    \A c, d \in 1..MaxCreates :
        /\ c # d
        /\ SameIdentity(c, d)
        /\ PassedLookups(c) /\ PassedLookups(d)
        /\ creating[c].pc = "done" /\ creating[d].pc = "done"
        => creating[c].status = 201 /\ creating[d].status = 201

\* C25, amended: both requests can pass the lookups, but the unique indexes
\* refuse the later insert: the two are never both answered 201, and no two
\* stored accounts share an email or a username.
C25_IndexRefusesLaterInsert ==
    /\ \A c, d \in 1..MaxCreates :
          c # d /\ SameIdentity(c, d) /\ creating[c].body # NoBody /\ creating[d].body # NoBody
          => ~(creating[c].status = 201 /\ creating[d].status = 201)
    /\ \A a, b \in users : a # b => a.email # b.email /\ a.username # b.username

\* Both requests passed the lookups and read different ids; one was
\* answered 201 and the other 409 by the index.
C25_Witness ==
    \E c, d \in 1..MaxCreates :
        /\ c # d
        /\ SameIdentity(c, d)
        /\ creating[c].id # creating[d].id
        /\ PassedLookups(c) /\ PassedLookups(d)
        /\ creating[c].status = 201
        /\ creating[d].status = 409 /\ creating[d].error = "E11000"

\* C29: a request is answered 409 only when a stored account holds its
\* email or its username; overlapping requests with distinct emails and
\* usernames are both answered 201, with distinct ids.
C29_DistinctCreatesSucceed ==
    \A c \in 1..MaxCreates :
        creating[c].status = 409 =>
            \E a \in users : \/ a.email = NormalizeEmail(creating[c].body.email)
                             \/ a.username = TrimUsername(creating[c].body.username)

====
